---- MODULE Spec2Model ----
(***************************************************************************)
(* A model of the stonks price-fetch pipeline.  Three entry points of the  *)
(* repository are modelled, one per value of the variable impl:            *)
(*   "app"     stonks/app.py       StonksApp.run with the providers of     *)
(*                                 stonks/providers.py and stonks/storage  *)
(*   "main"    main.py             main() with fetch_price_from_*          *)
(*   "fetcher" stonks/data_fetcher get_data_fetcher(cfg).fetch_data()      *)
(* One behaviour of the model is one run of one entry point over a list of *)
(* symbol files, against an environment (file contents, upstream answers,  *)
(* captured browser traffic, write errors) that is chosen step by step.    *)
(***************************************************************************)
EXTENDS Integers, Sequences, FiniteSets, TLC

(***************************************************************************)
(* Bounds of the model.                                                    *)
(***************************************************************************)
\* the longest list of symbol files of a run
MaxFiles == 2
\* the longest list of requests captured by one browser session
MaxReqs == 2

(***************************************************************************)
(* Program constants.                                                      *)
(***************************************************************************)
\* config.py: SELENIUM_MAX_RETRIES
SELENIUM_MAX_RETRIES == 10
\* config.py: SELENIUM_WAIT_TIME (seconds)
SELENIUM_WAIT_TIME == 30
\* main.py: for attempt in range(1, 10)
MainRangeStop == 10
\* main.py: time.sleep(30 * attempt)
MainBaseWait == 30
\* data_fetcher.py: for attempt in range(1, 4)
FetcherRangeStop == 4
\* data_fetcher.py: wait_time = 10 * attempt
FetcherBaseWait == 10
\* the divisor of the ILA -> ILS conversion
MinorUnits == 100

(***************************************************************************)
(* Values.  A Python float with two decimals is a record of its whole part *)
(* and its hundredths; None and a float are told apart by isNone.  A date  *)
(* string is a record of its layout and its fields.                        *)
(***************************************************************************)
NonePrice == [isNone |-> TRUE, whole |-> 0, cents |-> 0]

Float(w, c) == [isNone |-> FALSE, whole |-> w, cents |-> c]

\* Div100 without the division: the minor units taken as the price
Div100Whole(r) == Float(r, 0)

\* r / 100 of an integer r >= 0
Div100(r) == Float(r \div MinorUnits, r % MinorUnits)

\* Truthy that holds of no price: `if price:` never breaks
TruthyNever(p) == FALSE

\* Python truthiness of a price: None and 0.0 are falsy
Truthy(p) == ~p.isNone /\ (p.whole # 0 \/ p.cents # 0)

NoneDate == [fmt |-> "None", y |-> 0, m |-> 0, d |-> 0]

EmptyDate == [fmt |-> "empty", y |-> 0, m |-> 0, d |-> 0]

\* the text DD/MM/YYYY
DMY(d, m, y) == [fmt |-> "%d/%m/%Y", y |-> y, m |-> m, d |-> d]

\* the text YYYY-MM-DD
YMD(y, m, d) == [fmt |-> "%Y-%m-%d", y |-> y, m |-> m, d |-> d]

\* datetime.strptime(s, fmt) succeeds only on a text of that layout
Parses(s, fmt) == s.fmt = fmt

\* datetime.strptime(s, fmt).strftime('%Y-%m-%d')
Reformat(s) == YMD(s.y, s.m, s.d)

(***************************************************************************)
(* Captured requests.  url is the prefix class of request.url, response    *)
(* tells whether request.response is set, status is its status code,       *)
(* decodes whether brotli/utf-8/json decoding succeeds, json the decoded    *)
(* object (a function from the field names it has to their values).        *)
(***************************************************************************)
SecurityUrl == "https://api.tase.co.il/api/company/securitydata"

MutualUrl == "https://maya.tase.co.il/api/v1/funds/mutual"

OtherUrl == "other"

EmptyJson == [k \in {} |-> 0]

Req(u, r, s, dec, j) ==
    [url |-> u, response |-> r, status |-> s, decodes |-> dec, json |-> j]

SecurityJsons ==
    { EmptyJson }
    \cup { [LastRate |-> r] : r \in {0, 5034} }
    \cup { [TradeDate |-> t] : t \in {DMY(15, 3, 2024), YMD(2024, 3, 15)} }
    \cup { [LastRate |-> r, TradeDate |-> t] :
             r \in {0, 5034}, t \in {DMY(15, 3, 2024), YMD(2024, 3, 15)} }

MutualJsons ==
    { EmptyJson }
    \cup { [purchasePrice |-> r] : r \in {0, 998} }
    \cup { [ratesAsOf |-> t] : t \in {YMD(2024, 3, 15), DMY(15, 3, 2024)} }
    \cup { [purchasePrice |-> r, ratesAsOf |-> t] :
             r \in {0, 998}, t \in {YMD(2024, 3, 15), DMY(15, 3, 2024)} }

Requests ==
    { Req(SecurityUrl, FALSE, 200, FALSE, EmptyJson),
      Req(OtherUrl, TRUE, 200, TRUE, EmptyJson),
      Req(SecurityUrl, TRUE, 500, FALSE, EmptyJson),
      Req(MutualUrl, TRUE, 404, FALSE, EmptyJson),
      Req(SecurityUrl, TRUE, 200, FALSE, EmptyJson),
      Req(MutualUrl, TRUE, 200, FALSE, EmptyJson) }
    \cup { Req(SecurityUrl, TRUE, 200, TRUE, j) : j \in SecurityJsons }
    \cup { Req(MutualUrl, TRUE, 200, TRUE, j) : j \in MutualJsons }

\* no request
NoHit == Req("", FALSE, 0, FALSE, EmptyJson)

ReqLists == UNION { [1..n -> Requests] : n \in 0..MaxReqs }

\* 400 <= request.response.status_code < 600
HttpError(req) == 400 <= req.status /\ req.status < 600

\* the exception _decode_response / get_issa_rest_api_response raises on req,
\* "none" when it returns the decoded object
DecodeError(req) ==
    IF HttpError(req) THEN "status"
    ELSE IF ~req.decodes THEN "decode"
    ELSE "none"

Has(j, k) == k \in DOMAIN j

\* a datetime object (the result of datetime.strptime)
Datetime(s) == [fmt |-> "datetime", y |-> s.y, m |-> s.m, d |-> s.d]

(***************************************************************************)
(* stonks/providers.py: the scan of driver.requests in                     *)
(* TASEProvider._get_price_with_selenium.                                  *)
(***************************************************************************)
NoMatch(w) ==
    [found |-> FALSE, price |-> NonePrice, date |-> NoneDate, warn |-> w,
     req |-> NoHit]

\* one try block of the scan on a request of the matching prefix: the decoded
\* object gives a PriceData when it has both fields (pk, dk) and its date
\* parses with fmt; every exception is caught and logged as a warning (warn
\* is the last warning logged so far)
TASETry(req, pk, dk, fmt) ==
    IF DecodeError(req) # "none"
    THEN NoMatch(DecodeError(req))
    ELSE IF req.json # EmptyJson /\ Has(req.json, pk) /\ Has(req.json, dk)
    THEN IF Parses(req.json[dk], fmt)
         THEN [found |-> TRUE, price |-> Div100(req.json[pk]),
               date |-> Datetime(req.json[dk]), warn |-> "none", req |-> req]
         ELSE NoMatch("date")
    ELSE NoMatch("missing")

RECURSIVE TASEScanFrom(_, _, _)
TASEScanFrom(reqs, i, w) ==
    IF i > Len(reqs)
    THEN NoMatch(w)
    ELSE LET req == reqs[i]
             t == IF req.url = SecurityUrl
                  THEN TASETry(req, "LastRate", "TradeDate", "%d/%m/%Y")
                  ELSE TASETry(req, "purchasePrice", "ratesAsOf", "%Y-%m-%d")
         IN IF ~req.response \/ req.url \notin {SecurityUrl, MutualUrl}
            THEN TASEScanFrom(reqs, i + 1, w)
            ELSE IF t.found
            THEN [t EXCEPT !.warn = w]
            ELSE TASEScanFrom(reqs, i + 1, t.warn)

TASEScan(reqs) == TASEScanFrom(reqs, 1, "none")

\* what the scan of one attempt can give, over every captured request list
TASEOutcomes == { TASEScan(reqs) : reqs \in ReqLists }

(***************************************************************************)
(* main.py: the scan of driver.requests in fetch_price_from_issa.  The     *)
(* locals symbol_price and symbol_price_date are assigned statement by     *)
(* statement; an exception leaves the function at once.                    *)
(***************************************************************************)
Locals(p, d, e) == [price |-> p, date |-> d, exc |-> e]

\* response = get_issa_rest_api_response(request); price = response[pk] / 100;
\* date = response[dk]; date = strptime(date, fmt).strftime('%Y-%m-%d')
MainExtract(req, pk, dk, fmt, s) ==
    IF DecodeError(req) # "none"
    THEN Locals(s.price, s.date, DecodeError(req))
    ELSE IF ~Has(req.json, pk)
    THEN Locals(s.price, s.date, "KeyError")
    ELSE IF ~Has(req.json, dk)
    THEN Locals(Div100(req.json[pk]), s.date, "KeyError")
    ELSE IF ~Parses(req.json[dk], fmt)
    THEN Locals(Div100(req.json[pk]), req.json[dk], "ValueError")
    ELSE Locals(Div100(req.json[pk]), Reformat(req.json[dk]), "none")

RECURSIVE MainScanFrom(_, _, _)
MainScanFrom(reqs, i, s) ==
    IF i > Len(reqs)
    THEN s
    ELSE LET req == reqs[i]
             t == IF req.url = SecurityUrl
                  THEN MainExtract(req, "LastRate", "TradeDate", "%d/%m/%Y", s)
                  ELSE MainExtract(req, "purchasePrice", "ratesAsOf", "%Y-%m-%d", s)
         IN IF ~req.response \/ req.url \notin {SecurityUrl, MutualUrl}
            THEN MainScanFrom(reqs, i + 1, s)
            ELSE IF t.exc # "none"
            THEN t
            ELSE MainScanFrom(reqs, i + 1, t)

MainScan(reqs, s) == MainScanFrom(reqs, 1, s)

(***************************************************************************)
(* stonks/data_fetcher.py: the scan of driver.requests in                  *)
(* IssaDataFetcher.fetch_data.  The first request of a known prefix that   *)
(* has a response ends the scan (break); an exception ends it too and is   *)
(* caught by the attempt's except clause, the locals keeping what was      *)
(* assigned before it.                                                     *)
(***************************************************************************)
FetcherExtract(req, pk, dk, fmt, s) ==
    IF DecodeError(req) # "none"
    THEN Locals(s.price, s.date, DecodeError(req))
    ELSE IF ~Has(req.json, pk)
    THEN Locals(s.price, s.date, "KeyError")
    ELSE IF ~Has(req.json, dk)
    THEN Locals(Div100(req.json[pk]), s.date, "KeyError")
    ELSE IF ~Parses(req.json[dk], fmt)
    THEN Locals(Div100(req.json[pk]), req.json[dk], "ValueError")
    ELSE Locals(Div100(req.json[pk]), Reformat(req.json[dk]), "none")

RECURSIVE FetcherScanFrom(_, _, _)
FetcherScanFrom(reqs, i, s) ==
    IF i > Len(reqs)
    THEN s
    ELSE LET req == reqs[i]
         IN IF ~req.response \/ req.url \notin {SecurityUrl, MutualUrl}
            THEN FetcherScanFrom(reqs, i + 1, s)
            ELSE IF req.url = SecurityUrl
            THEN FetcherExtract(req, "LastRate", "TradeDate", "%d/%m/%Y", s)
            ELSE FetcherExtract(req, "purchasePrice", "ratesAsOf", "%Y-%m-%d", s)

FetcherScan(reqs, s) == FetcherScanFrom(reqs, 1, s)

\* the request the scan reads a payload from: the first that has a response
\* and a known prefix
FetcherHit(reqs) ==
    LET known == { i \in 1..Len(reqs) :
                     reqs[i].response /\ reqs[i].url \in {SecurityUrl, MutualUrl} }
    IN IF known = {} THEN NoHit
       ELSE reqs[CHOOSE i \in known : \A j \in known : i <= j]

(***************************************************************************)
(* Symbol files.  A file either fails to load (not JSON, or a required key *)
(* missing) or gives type, source and currency; the id and the symbol of   *)
(* the file at position k of the list are k.                               *)
(***************************************************************************)
BadFile == [parses |-> FALSE, type |-> "", source |-> "", currency |-> ""]

SymbolFile(t, s, c) == [parses |-> TRUE, type |-> t, source |-> s, currency |-> c]

FileKinds ==
    { BadFile,
      SymbolFile("etf", "justetf", "EUR"),
      SymbolFile("etf", "yahoo_finance", "USD"),
      SymbolFile("etf", "bogus", "USD"),
      SymbolFile("etf", "issa", "ILS"),
      SymbolFile("caspit", "issa", "ILA") }

FileLists == UNION { [1..n -> FileKinds] : n \in 0..MaxFiles }

KnownSources == {"justetf", "yahoo_finance", "issa"}

\* the close price of the last bar / the raw latest quote an upstream reports
UpstreamQuote == Float(12, 34)

UpstreamDay == YMD(2024, 3, 14)

\* the answer to a price request: the status of the response and the price
\* and date fields of its body (latestQuote.raw and latestQuoteDate, or the
\* last bar of the history), NonePrice / NoneDate for a field that is absent
Answer(st, p, d) == [status |-> st, raw |-> p, day |-> d]

NoAnswer == Answer(0, NonePrice, NoneDate)

\* what the quote endpoint of justetf can answer: an error status with or
\* without a body, a 3xx that is not a redirect (no Location header) with a
\* body, and 200 with the fields missing, a zero quote or a quote
QuoteAnswers ==
    { Answer(503, NonePrice, NoneDate),
      Answer(300, UpstreamQuote, UpstreamDay),
      Answer(503, UpstreamQuote, UpstreamDay),
      Answer(200, NonePrice, NoneDate),
      Answer(200, Float(0, 0), UpstreamDay),
      Answer(200, UpstreamQuote, UpstreamDay) }

\* what ticker.history() can give: an empty history or a last bar
HistoryAnswers ==
    { Answer(200, NonePrice, NoneDate),
      Answer(200, UpstreamQuote, UpstreamDay) }

\* RaiseForStatus left out: no status raises
RaiseForStatusNever(q) == FALSE

\* response.raise_for_status()
RaiseForStatus(q) == 400 <= q.status /\ q.status < 600

\* get_latest_user_agent() or "Mozilla/5.0"
DefaultAgent == "Mozilla/5.0"

\* the entry of the user-agent list that names windows and chrome
ListedAgent == "listed"

\* what a symbol's processing has met upstream: the user-agent list was
\* unreachable or answered a non-2xx status ("error"), had no entry for
\* windows/chrome ("nomatch") or had one ("match"), "unused" when it was not
\* asked; q is the answer to the price request, NoAnswer when none was sent
Upstream(a, q) == [agents |-> a, quote |-> q]

NoUpstream == Upstream("unused", NoAnswer)

UserAgentLists == {"error", "nomatch", "match"}

(***************************************************************************)
(* Persisted outputs: per symbol id the four files price, currency, date   *)
(* and info.json, each absent or holding a content.                        *)
(***************************************************************************)
\* str(price): the digits after the point, without a trailing zero
FracDigits(c) == IF c % 10 = 0 THEN <<c \div 10>> ELSE <<c \div 10, c % 10>>

Str(p) == [none |-> p.isNone, whole |-> p.whole, frac |-> FracDigits(p.cents)]

Info(i, t, s, sym, c, p, d) ==
    [id |-> i, type |-> t, source |-> s, symbol |-> sym, currency |-> c,
     price |-> p, price_date |-> d]

File(e, c) == [exists |-> e, content |-> c]

NoOutputs ==
    [price |-> File(FALSE, Str(NonePrice)), currency |-> File(FALSE, ""),
     date |-> File(FALSE, NoneDate),
     info |-> File(FALSE, Info(0, "", "", 0, "", NonePrice, NoneDate))]

\* what an earlier, successful run left for symbol k
OldOutputs(k) ==
    [price |-> File(TRUE, Str(Float(1, 50))), currency |-> File(TRUE, "OLD"),
     date |-> File(TRUE, YMD(2023, 12, 29)),
     info |-> File(TRUE, Info(k, "etf", "old", k, "OLD", Float(1, 50), YMD(2023, 12, 29)))]

\* Written with the price file opened in append mode: the digits of the new
\* price run on after those of the old
WrittenAppend(old, n, p, c, d, i) ==
    [price |-> IF n >= 1
               THEN File(TRUE, IF old.price.exists
                               THEN [p EXCEPT !.frac = old.price.content.frac \o @]
                               ELSE p)
               ELSE old.price,
     currency |-> IF n >= 2 THEN File(TRUE, c) ELSE old.currency,
     date |-> IF n >= 3 THEN File(TRUE, d) ELSE old.date,
     info |-> IF n >= 4 THEN File(TRUE, i) ELSE old.info]

\* the outputs after the writes 1..n of (price, currency, date, info.json) in
\* that order, each open(path, 'w') replacing the file
Written(old, n, p, c, d, i) ==
    [price |-> IF n >= 1 THEN File(TRUE, p) ELSE old.price,
     currency |-> IF n >= 2 THEN File(TRUE, c) ELSE old.currency,
     date |-> IF n >= 3 THEN File(TRUE, d) ELSE old.date,
     info |-> IF n >= 4 THEN File(TRUE, i) ELSE old.info]

(***************************************************************************)
(* stonks/models.py of the application package (SymbolTrackInfo and        *)
(* PriceData, imported by app.py, providers.py and storage.py).            *)
(***************************************************************************)
PriceData(sym, p, c, d, src) ==
    [symbol |-> sym, price |-> p, currency |-> c, date |-> d, source |-> src]

NoData == PriceData(0, NonePrice, "", NoneDate, "")

\* PriceData.formatted_date
FormattedDate(pd) == YMD(pd.date.y, pd.date.m, pd.date.d)

\* SymbolTrackInfo.from_dict(data) for the file at position k
TrackInfo(k, f) == Info(k, f.type, f.source, k, f.currency, NonePrice, NoneDate)

VARIABLES
    impl,       \* the entry point that runs
    files,      \* the symbol files, in the order the directory listing gives
    dist0,      \* the persisted outputs when the run starts, by symbol id
    dist,       \* the persisted outputs, by symbol id
    idx,        \* position of the orchestrator's loop in files
    pc,         \* control location
    processed,  \* the files whose processing was started, in order
    failed,     \* the files for which the run's except clause logged a failure
    sunk,       \* the ids whose record was handed to the sink, in order
    data,       \* the record obtained for the current symbol
    attempt,    \* the fetch loop's attempt number, 0 before the loop
    open,       \* the attempts of the current fetch call whose browser session
                \* was launched and has not been quit
    driver,     \* the attempt whose session the local `driver` names, 0 unbound
    dblQuit,    \* quit() was called on a session that was not open
    wait,       \* seconds slept in the current attempt, 0 before its sleep
    url,        \* the page the current attempt navigated to
    price,      \* the fetch call's local price / symbol_price
    date,       \* the fetch call's local price_date / symbol_price_date
    warn,       \* what the current attempt logged last (a warning of the scan,
                \* the exception that ended it), "none" if nothing
    upstream,   \* what the user-agent list and the quote endpoint / market SDK
                \* answer for the symbol being processed
    calls,      \* the price requests sent upstream for that symbol
    agent,      \* the User-Agent header resolved for / sent with its request
    hit,        \* the first captured request the last matching scan of the
                \* current fetch call read a payload from (in main.py: the
                \* scan that ended with a price)
    configs,    \* the list load_symbol_configs has built
    pass,       \* 0 in a single run; in a double run the number of the run
    script,     \* in a double run, by symbol, the answers the environment has
                \* given for it: the same answer at every attempt of both runs
    first       \* in the second run, what the first run left

orch == <<impl, files, dist0, dist, idx, pc, processed, failed, sunk, data>>

fetch == <<attempt, open, driver, dblQuit, wait, url, price, date, warn>>

net == <<upstream, calls, agent>>

vars == <<impl, files, dist0, dist, idx, pc, processed, failed, sunk, data,
          attempt, open, driver, dblQuit, wait, url, price, date, warn,
          upstream, calls, agent, hit, configs, pass, script, first>>

twice == <<pass, script, first>>

Impls == {"app", "main", "fetcher", "loader"}

StartPc(i) ==
    IF i = "app" THEN "run"
    ELSE IF i = "main" THEN "m_loop"
    ELSE IF i = "fetcher" THEN "f_factory"
    ELSE "l_loop"

\* no answer recorded yet for a symbol
EmptyScript == [quote |-> {}, launch |-> {}, nav |-> {}, scan |-> {}, stop |-> {}]

NoFirst == [dist |-> <<>>, sunk |-> <<>>, failed |-> <<>>]

\* the environment answers v to question q about the symbol being processed.
\* In a single run every answer is free; in a double run the first answer to
\* a question is free and every later one, in either run, repeats it
Answered(q, v) ==
    IF pass = 0
    THEN UNCHANGED script
    ELSE /\ script[idx][q] \subseteq {v}
         /\ script' = [script EXCEPT ![idx][q] = {v}]

\* the locals of a fetch call before its loop
FreshFetch(p, d) ==
    /\ attempt' = 0
    /\ open' = {}
    /\ driver' = 0
    /\ dblQuit' = FALSE
    /\ wait' = 0
    /\ url' = ""
    /\ price' = p
    /\ date' = d
    /\ warn' = "none"

\* the state before the entry point is chosen and started
InitState ==
    /\ files \in FileLists
    /\ \E old \in BOOLEAN :
         dist0 = [k \in 1..Len(files) |-> IF old THEN OldOutputs(k) ELSE NoOutputs]
    /\ dist = dist0
    /\ idx = 1
    /\ processed = <<>>
    /\ failed = <<>>
    /\ sunk = <<>>
    /\ data = NoData
    /\ attempt = 0
    /\ open = {}
    /\ driver = 0
    /\ dblQuit = FALSE
    /\ wait = 0
    /\ url = ""
    /\ price = NonePrice
    /\ date = NoneDate
    /\ warn = "none"
    /\ upstream = NoUpstream
    /\ calls = 0
    /\ agent = ""
    /\ hit = NoHit
    /\ configs = <<>>
    /\ first = NoFirst

Init ==
    /\ impl \in Impls
    /\ InitState
    /\ impl = "fetcher" => Len(files) = 1 /\ files[1].parses
    /\ pc = StartPc(impl)
    /\ pass = 0
    /\ script = <<>>

\* StonksApp about to be run twice over the same files
InitTwice ==
    /\ impl = "app"
    /\ InitState
    /\ pc = StartPc(impl)
    /\ pass = 1
    /\ script = [k \in 1..Len(files) |-> EmptyScript]

(***************************************************************************)
(* stonks/app.py: StonksApp.run and StonksApp.process_symbol.              *)
(***************************************************************************)
\* ProviderFor with a default: an unknown source is served by a provider
ProviderForDefault(source) ==
    IF source = "justetf" THEN "JustETFProvider"
    ELSE IF source = "issa" THEN "TASEProvider"
    ELSE "YahooFinanceProvider"

\* self.providers.get(track_info.source)
ProviderFor(source) ==
    IF source = "justetf" THEN "JustETFProvider"
    ELSE IF source = "yahoo_finance" THEN "YahooFinanceProvider"
    ELSE IF source = "issa" THEN "TASEProvider"
    ELSE "None"

\* AppFail without the except clause of run: the exception leaves run
AppFailAbort ==
    /\ failed' = Append(failed, idx)
    /\ pc' = "aborted"
    /\ UNCHANGED idx

\* an exception in process_symbol: its except clause logs and re-raises, the
\* except clause of run logs the failure and continues with the next file
AppFail ==
    /\ failed' = Append(failed, idx)
    /\ idx' = idx + 1
    /\ pc' = "run"

\* what run gives its caller: run keeps no list of the failures it logs and
\* has no return statement
RunReport == <<>>

\* how run has ended for its caller: it returns when the loop is over,
\* whatever the number of files; "raised" if an exception left it
RunSignal ==
    IF pc = "done" THEN "returned"
    ELSE IF pc = "aborted" THEN "raised"
    ELSE "running"

\* for symbol_file in self.storage.get_symbol_files(): process_symbol(...)
Run ==
    /\ impl = "app" /\ pc = "run"
    /\ IF idx <= Len(files)
       THEN /\ processed' = Append(processed, idx)
            /\ pc' = "load"
       ELSE /\ pc' = "done"
            /\ UNCHANGED processed
    /\ data' = NoData
    /\ FreshFetch(NonePrice, NoneDate)
    /\ UNCHANGED <<impl, files, dist0, dist, idx, failed, sunk>>
    /\ upstream' = NoUpstream
    /\ calls' = 0
    /\ agent' = ""
    /\ hit' = NoHit
    /\ UNCHANGED <<configs>>
    /\ UNCHANGED twice

\* track_info = self.storage.load_symbol_track_info(symbol_file)
AppLoad ==
    /\ impl = "app" /\ pc = "load"
    /\ IF files[idx].parses
       THEN /\ pc' = "provider"
            /\ UNCHANGED <<idx, failed>>
       ELSE AppFail
    /\ UNCHANGED <<impl, files, dist0, dist, processed, sunk, data>>
    /\ UNCHANGED fetch
    /\ UNCHANGED <<upstream, calls, agent, hit, configs>>
    /\ UNCHANGED twice

\* provider_class = self.providers.get(...); provider = provider_class()
AppSelectProvider ==
    /\ impl = "app" /\ pc = "provider"
    /\ IF ProviderFor(files[idx].source) # "None"
       THEN /\ pc' = ProviderFor(files[idx].source)
            /\ UNCHANGED <<idx, failed>>
       ELSE AppFail
    /\ UNCHANGED <<impl, files, dist0, dist, processed, sunk, data>>
    /\ UNCHANGED fetch
    /\ UNCHANGED <<upstream, calls, agent, hit, configs>>
    /\ UNCHANGED twice

\* SaveDir that names the directory of the first symbol for every id
SaveDirFirst(k) == 1

\* symbol_dist_dir = os.path.join(config.DIST_DIR, symbol_id): the outputs a
\* save for symbol id k writes
SaveDir(k) == k

\* self.storage.save_price_data(track_info.id, price_data, track_info): makedirs,
\* the three _save_file calls and the dump of info.json; step `stop` of the five
\* raises (6: none does)
AppSave ==
    /\ impl = "app" /\ pc = "save"
    /\ sunk' = Append(sunk, data)
    /\ \E stop \in 1..6 :
         LET n == IF stop = 6 THEN 4 ELSE IF stop = 1 THEN 0 ELSE stop - 2
             info == [TrackInfo(idx, files[idx]) EXCEPT
                        !.price = data.price, !.price_date = FormattedDate(data)]
         IN /\ Answered("stop", stop)
            /\ dist' = [dist EXCEPT ![SaveDir(idx)] =
                          Written(@, n, Str(data.price), data.currency,
                                  FormattedDate(data), info)]
            /\ IF stop = 6
               THEN /\ idx' = idx + 1
                    /\ pc' = "run"
                    /\ UNCHANGED failed
               ELSE AppFail
    /\ UNCHANGED <<impl, files, dist0, processed, data>>
    /\ UNCHANGED fetch
    /\ hit' = NoHit
    /\ UNCHANGED <<upstream, calls, agent, configs>>
    /\ UNCHANGED <<pass, first>>

(***************************************************************************)
(* stonks/providers.py                                                     *)
(***************************************************************************)
\* JustETFProvider.get_price_data: the headers of its request call
\* self._get_user_agent(), which JustETFProvider and DataProvider do not
\* define (it is a method of TASEProvider): AttributeError before any request
JustETFGetPriceData ==
    /\ impl = "app" /\ pc = "JustETFProvider"
    /\ AppFail
    /\ UNCHANGED <<impl, files, dist0, dist, processed, sunk, data>>
    /\ UNCHANGED fetch
    /\ UNCHANGED <<upstream, calls, agent, hit, configs>>
    /\ UNCHANGED twice

\* YahooGetPriceData with a retry: an empty history asks again
YahooGetPriceDataRetry ==
    /\ impl = "app" /\ pc = "YahooFinanceProvider"
    /\ calls' = calls + 1
    /\ \E q \in HistoryAnswers :
         /\ Answered("quote", q)
         /\ upstream' = [upstream EXCEPT !.quote = q]
         /\ IF q.raw.isNone
            THEN UNCHANGED <<pc, data>>
            ELSE /\ data' = PriceData(idx, q.raw, files[idx].currency,
                                      Datetime(q.day), "yahoo_finance")
                 /\ pc' = "save"
    /\ UNCHANGED <<impl, files, dist0, dist, idx, processed, failed, sunk>>
    /\ UNCHANGED fetch
    /\ UNCHANGED <<agent, hit, configs>>
    /\ UNCHANGED <<pass, first>>

\* YahooFinanceProvider.get_price_data: history['Close'].iloc[-1] raises on an
\* empty history
YahooGetPriceData ==
    /\ impl = "app" /\ pc = "YahooFinanceProvider"
    /\ calls' = calls + 1
    /\ \E q \in HistoryAnswers :
         /\ Answered("quote", q)
         /\ upstream' = [upstream EXCEPT !.quote = q]
         /\ IF q.raw.isNone
            THEN /\ AppFail
                 /\ UNCHANGED data
            ELSE /\ data' = PriceData(idx, q.raw, files[idx].currency,
                                      Datetime(q.day), "yahoo_finance")
                 /\ pc' = "save"
                 /\ UNCHANGED <<idx, failed>>
    /\ UNCHANGED <<impl, files, dist0, dist, processed, sunk>>
    /\ UNCHANGED fetch
    /\ UNCHANGED <<agent, hit, configs>>
    /\ UNCHANGED <<pass, first>>

\* TASEWait with the same wait in every attempt
TASEWaitFixed(k) == SELENIUM_WAIT_TIME

\* wait_time = config.SELENIUM_WAIT_TIME * attempt
TASEWait(k) == SELENIUM_WAIT_TIME * k

\* the last value of range(1, config.SELENIUM_MAX_RETRIES)
TASELastAttempt == SELENIUM_MAX_RETRIES - 1

\* TASEFinally as a quit at the end of the try block only: an exception
\* skips it
TASEQuitAtEnd(path) ==
    IF path = "raise"
    THEN UNCHANGED <<open, dblQuit>>
    ELSE /\ open' = open \ {driver}
         /\ dblQuit' = (dblQuit \/ driver \notin open)

\* finally: driver.quit(), on the way out of the try block by `path`
TASEFinally(path) ==
    /\ open' = open \ {driver}
    /\ dblQuit' = (dblQuit \/ driver \notin open)

\* TASEExcept that re-raises in every attempt
TASEExceptRaise == AppFail

\* except Exception in get_price_data: log; raise on the last attempt
TASEExcept ==
    IF attempt = SELENIUM_MAX_RETRIES - 1
    THEN AppFail
    ELSE /\ pc' = "TASEProvider"
         /\ UNCHANGED <<idx, failed>>

\* for attempt in range(1, config.SELENIUM_MAX_RETRIES); after the loop
\* raise Exception("Failed to get price ... after N attempts")
TASENextAttempt ==
    /\ impl = "app" /\ pc = "TASEProvider"
    /\ IF attempt < TASELastAttempt
       THEN /\ attempt' = attempt + 1
            /\ pc' = "tase_launch"
            /\ wait' = 0
            /\ url' = ""
            /\ warn' = "none"
            /\ UNCHANGED <<idx, failed>>
       ELSE /\ AppFail
            /\ UNCHANGED <<attempt, wait, url, warn>>
    /\ UNCHANGED <<impl, files, dist0, dist, processed, sunk, data>>
    /\ UNCHANGED <<open, driver, dblQuit, price, date>>
    /\ UNCHANGED <<upstream, calls, agent, hit, configs>>
    /\ UNCHANGED twice

\* driver = webdriver.Chrome(options=options), before the try block
TASELaunch ==
    /\ impl = "app" /\ pc = "tase_launch"
    /\ \E ok \in BOOLEAN :
         /\ Answered("launch", ok)
         /\ IF ok
            THEN /\ open' = open \cup {attempt}
                 /\ driver' = attempt
                 /\ pc' = "tase_get"
                 /\ UNCHANGED <<idx, failed, warn>>
            ELSE /\ TASEExcept
                 /\ warn' = "launch"
                 /\ UNCHANGED <<open, driver>>
    /\ UNCHANGED <<impl, files, dist0, dist, processed, sunk, data>>
    /\ UNCHANGED <<attempt, dblQuit, wait, url, price, date>>
    /\ UNCHANGED <<upstream, calls, agent, hit, configs>>
    /\ UNCHANGED <<pass, first>>

\* driver.get(url); time.sleep(wait_time); driver.implicitly_wait(wait_time)
TASENavigate ==
    /\ impl = "app" /\ pc = "tase_get"
    /\ \E ok \in BOOLEAN :
         /\ Answered("nav", ok)
         /\ IF ok
            THEN /\ url' = "https://market.tase.co.il/he/market_data/security"
                 /\ wait' = TASEWait(attempt)
                 /\ pc' = "tase_scan"
                 /\ UNCHANGED <<idx, failed, open, dblQuit, warn>>
            ELSE /\ TASEFinally("raise")
                 /\ TASEExcept
                 /\ warn' = "navigate"
                 /\ UNCHANGED <<url, wait>>
    /\ UNCHANGED <<impl, files, dist0, dist, processed, sunk, data>>
    /\ UNCHANGED <<attempt, driver, price, date>>
    /\ UNCHANGED <<upstream, calls, agent, hit, configs>>
    /\ UNCHANGED <<pass, first>>

\* the scan of driver.requests, the finally clause, and in get_price_data
\* `if price_data: return price_data` (a PriceData object is truthy); the
\* locals of get_price_data end with its return.  Reading driver.requests is
\* outside the inner try block: its exception leaves the function
TASEScanRequests ==
    /\ impl = "app" /\ pc = "tase_scan"
    /\ \/ /\ \E o \in TASEOutcomes :
               /\ Answered("scan", [exc |-> FALSE, o |-> o])
               /\ IF o.found
                  THEN /\ data' = PriceData(idx, o.price, "ILS", o.date, "tase")
                       /\ hit' = o.req
                       /\ pc' = "save"
                       /\ attempt' = 0
                       /\ driver' = 0
                       /\ wait' = 0
                       /\ url' = ""
                       /\ warn' = "none"
                  ELSE /\ pc' = "TASEProvider"
                       /\ warn' = o.warn
                       /\ UNCHANGED <<data, attempt, driver, wait, url, hit>>
          /\ TASEFinally("return")
          /\ UNCHANGED <<idx, failed>>
       \/ /\ Answered("scan", [exc |-> TRUE, o |-> NoMatch("none")])
          /\ TASEFinally("raise")
          /\ TASEExcept
          /\ warn' = "requests"
          /\ UNCHANGED <<data, attempt, driver, wait, url, hit>>
    /\ UNCHANGED <<impl, files, dist0, dist, processed, sunk>>
    /\ UNCHANGED <<price, date>>
    /\ UNCHANGED <<upstream, calls, agent, configs>>
    /\ UNCHANGED <<pass, first>>

(***************************************************************************)
(* main.py: main, process_symbol_file and the fetch_price_from_* functions *)
(***************************************************************************)
\* except Exception in main: logging.exception(...); raise.  The exception
\* leaves the for loop and main
MainFail ==
    /\ failed' = Append(failed, idx)
    /\ pc' = "aborted"
    /\ UNCHANGED idx

\* time.sleep(30 * attempt)
MainWait(k) == MainBaseWait * k

\* the locals (symbol_price, symbol_price_date) a scan can start from
MainStarts ==
    { Locals(p, d, "none") : p \in {NonePrice, Float(0, 0)},
                             d \in {EmptyDate, YMD(2024, 3, 15)} }

\* the first request the scan reads a payload from: the first that has a
\* response and a known prefix (the scan has no break: it reads every later
\* such request too)
MainHit(reqs) == FetcherHit(reqs)

\* the scans of one attempt: the locals before, the locals and exception
\* after, the first request read
MainOutcomes ==
    { <<s, MainScan(reqs, s), MainHit(reqs)>> : s \in MainStarts, reqs \in ReqLists }

\* for symbol_file_path in glob.glob(...)
MainLoop ==
    /\ impl = "main" /\ pc = "m_loop"
    /\ IF idx <= Len(files)
       THEN /\ processed' = Append(processed, idx)
            /\ pc' = "m_open"
       ELSE /\ pc' = "done"
            /\ UNCHANGED processed
    /\ data' = NoData
    /\ FreshFetch(NonePrice, NoneDate)
    /\ UNCHANGED <<impl, files, dist0, dist, idx, failed, sunk>>
    /\ upstream' = NoUpstream
    /\ calls' = 0
    /\ agent' = ""
    /\ hit' = NoHit
    /\ UNCHANGED <<configs>>
    /\ UNCHANGED twice

\* with open(symbol_file_path) as file: symbol_info = json.load(file)
MainOpen ==
    /\ impl = "main" /\ pc = "m_open"
    /\ IF files[idx].parses
       THEN /\ pc' = "m_agent"
            /\ UNCHANGED <<idx, failed>>
       ELSE MainFail
    /\ UNCHANGED <<impl, files, dist0, dist, processed, sunk, data>>
    /\ UNCHANGED fetch
    /\ UNCHANGED <<upstream, calls, agent, hit, configs>>
    /\ UNCHANGED twice

\* user_agent_header = get_latest_user_agent(...): raises on a network error or
\* a non-2xx status, returns None when no entry matches
MainUserAgent ==
    /\ impl = "main" /\ pc = "m_agent"
    /\ \E a \in UserAgentLists :
         /\ upstream' = [upstream EXCEPT !.agents = a]
         /\ IF a = "error"
            THEN /\ MainFail
                 /\ UNCHANGED agent
            ELSE /\ agent' = IF a = "match" THEN ListedAgent ELSE "None"
                 /\ pc' = "m_process"
                 /\ UNCHANGED <<idx, failed>>
    /\ UNCHANGED <<impl, files, dist0, dist, processed, sunk, data>>
    /\ UNCHANGED fetch
    /\ UNCHANGED <<calls, hit, configs>>
    /\ UNCHANGED twice

\* process_symbol_file: symbol_price = 0; symbol_price_date = ''; the if/elif
\* chain on the source; with no branch taken `if not symbol_price: raise`
MainProcess ==
    /\ impl = "main" /\ pc = "m_process"
    /\ IF files[idx].source = "justetf"
       THEN /\ pc' = "m_justetf"
            /\ UNCHANGED <<idx, failed>>
       ELSE IF files[idx].source = "yahoo_finance"
       THEN /\ pc' = "m_yahoo"
            /\ UNCHANGED <<idx, failed>>
       ELSE IF files[idx].source = "issa"
       THEN /\ pc' = "m_issa"
            /\ UNCHANGED <<idx, failed>>
       ELSE MainFail
    /\ price' = IF files[idx].source = "issa" THEN NonePrice ELSE Float(0, 0)
    /\ date' = EmptyDate
    /\ UNCHANGED <<impl, files, dist0, dist, processed, sunk, data>>
    /\ UNCHANGED <<attempt, open, driver, dblQuit, wait, url, warn>>
    /\ UNCHANGED <<upstream, calls, agent, hit, configs>>
    /\ UNCHANGED twice

\* fetch_price_from_justetf: one requests.get with the resolved header,
\* raise_for_status, the two fields of the body (KeyError when one is
\* absent); then in process_symbol_file `if not symbol_price: raise Exception`
MainJustETF ==
    /\ impl = "main" /\ pc = "m_justetf"
    /\ calls' = calls + 1
    /\ \E q \in QuoteAnswers :
         /\ upstream' = [upstream EXCEPT !.quote = q]
         /\ IF RaiseForStatus(q) \/ q.raw.isNone \/ q.day = NoneDate \/ ~Truthy(q.raw)
            THEN /\ MainFail
                 /\ UNCHANGED data
            ELSE /\ data' = PriceData(idx, q.raw, files[idx].currency, q.day, "justetf")
                 /\ pc' = "m_write"
                 /\ UNCHANGED <<idx, failed>>
    /\ UNCHANGED <<impl, files, dist0, dist, processed, sunk>>
    /\ UNCHANGED fetch
    /\ UNCHANGED <<agent, hit, configs>>
    /\ UNCHANGED twice

\* fetch_price_from_yahoo_finance: iloc[-1] raises on an empty history
MainYahoo ==
    /\ impl = "main" /\ pc = "m_yahoo"
    /\ calls' = calls + 1
    /\ \E q \in HistoryAnswers :
         /\ upstream' = [upstream EXCEPT !.quote = q]
         /\ IF q.raw.isNone
            THEN /\ MainFail
                 /\ UNCHANGED data
            ELSE /\ data' = PriceData(idx, q.raw, files[idx].currency,
                                      Reformat(q.day), "yahoo_finance")
                 /\ pc' = "m_write"
                 /\ UNCHANGED <<idx, failed>>
    /\ UNCHANGED <<impl, files, dist0, dist, processed, sunk>>
    /\ UNCHANGED fetch
    /\ UNCHANGED <<agent, hit, configs>>
    /\ UNCHANGED twice

\* fetch_price_from_issa: for attempt in range(1, 10): if symbol_price: break;
\* after the loop return symbol_price, symbol_price_date, and in
\* process_symbol_file `if not symbol_price: raise Exception`
MainIssaLoop ==
    /\ impl = "main" /\ pc = "m_issa"
    /\ IF attempt < MainRangeStop - 1 /\ ~Truthy(price)
       THEN /\ attempt' = attempt + 1
            /\ pc' = "m_launch"
            /\ UNCHANGED <<idx, failed, data, price, date, driver>>
       ELSE IF Truthy(price)
       THEN /\ data' = PriceData(idx, price, files[idx].currency, date, "issa")
            /\ pc' = "m_write"
            /\ attempt' = 0
            /\ driver' = 0
            /\ price' = NonePrice
            /\ date' = NoneDate
            /\ UNCHANGED <<idx, failed>>
       ELSE /\ MainFail
            /\ UNCHANGED <<data, attempt, price, date, driver>>
    /\ wait' = 0
    /\ url' = ""
    /\ warn' = "none"
    /\ UNCHANGED <<impl, files, dist0, dist, processed, sunk>>
    /\ UNCHANGED <<open, dblQuit>>
    /\ UNCHANGED <<upstream, calls, agent, hit, configs>>
    /\ UNCHANGED twice

\* driver = webdriver.Chrome(service=service, options=options)
MainLaunch ==
    /\ impl = "main" /\ pc = "m_launch"
    /\ \E ok \in BOOLEAN :
         IF ok
         THEN /\ open' = open \cup {attempt}
              /\ driver' = attempt
              /\ pc' = "m_get"
              /\ UNCHANGED <<idx, failed, warn>>
         ELSE /\ MainFail
              /\ warn' = "launch"
              /\ UNCHANGED <<open, driver>>
    /\ UNCHANGED <<impl, files, dist0, dist, processed, sunk, data>>
    /\ UNCHANGED <<attempt, dblQuit, wait, url, price, date>>
    /\ UNCHANGED <<upstream, calls, agent, hit, configs>>
    /\ UNCHANGED twice

\* the url by symbol_track_info['type']; driver.get(url);
\* time.sleep(30 * attempt); driver.implicitly_wait(30 * attempt)
MainNavigate ==
    /\ impl = "main" /\ pc = "m_get"
    /\ \E ok \in BOOLEAN :
         IF ok
         THEN /\ url' = IF files[idx].type = "etf"
                        THEN "https://market.tase.co.il/he/market_data/security"
                        ELSE "https://maya.tase.co.il/he/funds/mutual-funds"
              /\ wait' = MainWait(attempt)
              /\ pc' = "m_scan"
              /\ UNCHANGED <<idx, failed, warn>>
         ELSE /\ MainFail
              /\ warn' = "navigate"
              /\ UNCHANGED <<url, wait>>
    /\ UNCHANGED <<impl, files, dist0, dist, processed, sunk, data>>
    /\ UNCHANGED <<attempt, open, driver, dblQuit, price, date>>
    /\ UNCHANGED <<upstream, calls, agent, hit, configs>>
    /\ UNCHANGED twice

\* for request in driver.requests: ... ; nothing catches an exception of the
\* scan and nothing quits the driver
MainScanRequests ==
    /\ impl = "main" /\ pc = "m_scan"
    /\ \E o \in MainOutcomes :
         /\ o[1] = Locals(price, date, "none")
         /\ hit' = IF o[2].exc = "none" /\ Truthy(o[2].price) THEN o[3] ELSE hit
         /\ IF o[2].exc = "none"
            THEN /\ price' = o[2].price
                 /\ date' = o[2].date
                 /\ pc' = "m_issa"
                 /\ UNCHANGED <<idx, failed, warn>>
            ELSE /\ MainFail
                 /\ warn' = o[2].exc
                 /\ UNCHANGED <<price, date>>
    /\ UNCHANGED <<impl, files, dist0, dist, processed, sunk, data>>
    /\ UNCHANGED <<attempt, open, driver, dblQuit, wait, url>>
    /\ UNCHANGED <<upstream, calls, agent, configs>>
    /\ UNCHANGED twice

\* main: os.makedirs, then the writes of price, currency, date and info.json;
\* step `stop` of the five raises (6: none does)
MainWrite ==
    /\ impl = "main" /\ pc = "m_write"
    /\ sunk' = Append(sunk, data)
    /\ \E stop \in 1..6 :
         LET n == IF stop = 6 THEN 4 ELSE IF stop = 1 THEN 0 ELSE stop - 2
             f == files[idx]
             info == Info(idx, f.type, f.source, idx, f.currency, data.price, data.date)
         IN /\ dist' = [dist EXCEPT ![idx] =
                          Written(@, n, Str(data.price), f.currency, data.date, info)]
            /\ IF stop = 6
               THEN /\ idx' = idx + 1
                    /\ pc' = "m_loop"
                    /\ UNCHANGED failed
               ELSE MainFail
    /\ UNCHANGED <<impl, files, dist0, processed, data>>
    /\ UNCHANGED fetch
    /\ hit' = NoHit
    /\ UNCHANGED <<upstream, calls, agent, configs>>
    /\ UNCHANGED twice

(***************************************************************************)
(* stonks/data_fetcher.py: get_data_fetcher(symbol_config).fetch_data()    *)
(***************************************************************************)
\* an exception leaves the call
FetcherRaise == pc' = "raised"

\* wait_time = 10 * attempt
FetcherWait(k) == FetcherBaseWait * k

\* the locals (price, price_date) a scan can start from
FetcherStarts ==
    { Locals(p, d, "none") : p \in {NonePrice, Float(0, 0)},
                             d \in {NoneDate, YMD(2024, 3, 15), DMY(15, 3, 2024)} }

FetcherOutcomes ==
    { <<s, FetcherScan(reqs, s), FetcherHit(reqs)>> :
        s \in FetcherStarts, reqs \in ReqLists }

\* driver.quit()
FetcherQuit ==
    /\ open' = open \ {driver}
    /\ dblQuit' = (dblQuit \/ driver \notin open)

\* except Exception as e: logger.error(...); if driver: driver.quit().
\* With `driver` never assigned the test itself raises UnboundLocalError
FetcherExcept ==
    IF driver = 0
    THEN /\ FetcherRaise
         /\ UNCHANGED <<open, dblQuit>>
    ELSE /\ FetcherQuit
         /\ pc' = "f_issa"

\* get_data_fetcher: the if/elif chain on symbol_config.source
GetDataFetcher ==
    /\ impl = "fetcher" /\ pc = "f_factory"
    /\ processed' = Append(processed, idx)
    /\ IF files[idx].source = "justetf" THEN pc' = "f_justetf"
       ELSE IF files[idx].source = "yahoo_finance" THEN pc' = "f_yahoo"
       ELSE IF files[idx].source = "issa" THEN pc' = "f_issa"
       ELSE FetcherRaise
    /\ UNCHANGED <<impl, files, dist0, dist, idx, failed, sunk, data>>
    /\ UNCHANGED fetch
    /\ UNCHANGED <<upstream, calls, agent, hit, configs>>
    /\ UNCHANGED twice

\* JustETFDataFetcher.fetch_data: get_latest_user_agent() (which catches
\* every exception and returns None) or "Mozilla/5.0"; one requests.get;
\* raise_for_status; the two fields of the body; except: log and raise
FetcherJustETF ==
    /\ impl = "fetcher" /\ pc = "f_justetf"
    /\ calls' = calls + 1
    /\ \E a \in UserAgentLists, q \in QuoteAnswers :
         /\ upstream' = Upstream(a, q)
         /\ agent' = IF a = "match" THEN ListedAgent ELSE DefaultAgent
         /\ IF RaiseForStatus(q) \/ q.raw.isNone \/ q.day = NoneDate
            THEN /\ FetcherRaise
                 /\ UNCHANGED data
            ELSE /\ data' = PriceData(idx, q.raw, files[idx].currency, q.day, "justetf")
                 /\ pc' = "returned"
    /\ UNCHANGED <<impl, files, dist0, dist, idx, processed, failed, sunk>>
    /\ UNCHANGED fetch
    /\ UNCHANGED <<hit, configs>>
    /\ UNCHANGED twice

\* YahooFinanceDataFetcher.fetch_data: if history.empty: raise ValueError
FetcherYahoo ==
    /\ impl = "fetcher" /\ pc = "f_yahoo"
    /\ calls' = calls + 1
    /\ \E q \in HistoryAnswers :
         /\ upstream' = [upstream EXCEPT !.quote = q]
         /\ IF q.raw.isNone
            THEN /\ FetcherRaise
                 /\ UNCHANGED data
            ELSE /\ data' = PriceData(idx, q.raw, files[idx].currency,
                                      Reformat(q.day), "yahoo_finance")
                 /\ pc' = "returned"
    /\ UNCHANGED <<impl, files, dist0, dist, idx, processed, failed, sunk>>
    /\ UNCHANGED fetch
    /\ UNCHANGED <<agent, hit, configs>>
    /\ UNCHANGED twice

\* IssaDataFetcher.fetch_data: for attempt in range(1, 4): if price: break;
\* after the loop `if not price: raise ValueError`, else return SymbolData
FetcherIssaLoop ==
    /\ impl = "fetcher" /\ pc = "f_issa"
    /\ IF attempt < FetcherRangeStop - 1 /\ ~Truthy(price)
       THEN /\ attempt' = attempt + 1
            /\ pc' = "f_launch"
            /\ wait' = 0
            /\ url' = ""
            /\ warn' = "none"
            /\ UNCHANGED data
       ELSE IF Truthy(price)
       THEN /\ data' = PriceData(idx, price, files[idx].currency, date, "issa")
            /\ pc' = "returned"
            /\ UNCHANGED <<attempt, wait, url, warn>>
       ELSE /\ FetcherRaise
            /\ UNCHANGED <<data, attempt, wait, url, warn>>
    /\ UNCHANGED <<impl, files, dist0, dist, idx, processed, failed, sunk>>
    /\ UNCHANGED <<open, driver, dblQuit, price, date>>
    /\ UNCHANGED <<upstream, calls, agent, hit, configs>>
    /\ UNCHANGED twice

\* driver = webdriver.Chrome(options=options), inside the try block
FetcherLaunch ==
    /\ impl = "fetcher" /\ pc = "f_launch"
    /\ \E ok \in BOOLEAN :
         IF ok
         THEN /\ open' = open \cup {attempt}
              /\ driver' = attempt
              /\ pc' = "f_get"
              /\ UNCHANGED <<dblQuit, warn>>
         ELSE /\ FetcherExcept
              /\ warn' = "launch"
              /\ UNCHANGED driver
    /\ UNCHANGED <<impl, files, dist0, dist, idx, processed, failed, sunk, data>>
    /\ UNCHANGED <<attempt, wait, url, price, date>>
    /\ UNCHANGED <<upstream, calls, agent, hit, configs>>
    /\ UNCHANGED twice

\* the url by symbol_config.type; driver.get(url); time.sleep(wait_time);
\* driver.implicitly_wait(wait_time)
FetcherNavigate ==
    /\ impl = "fetcher" /\ pc = "f_get"
    /\ \E ok \in BOOLEAN :
         IF ok
         THEN /\ url' = IF files[idx].type = "etf"
                        THEN "https://market.tase.co.il/he/market_data/security"
                        ELSE "https://maya.tase.co.il/he/funds/mutual-funds"
              /\ wait' = FetcherWait(attempt)
              /\ pc' = "f_scan"
              /\ UNCHANGED <<open, dblQuit, warn>>
         ELSE /\ FetcherExcept
              /\ warn' = "navigate"
              /\ UNCHANGED <<url, wait>>
    /\ UNCHANGED <<impl, files, dist0, dist, idx, processed, failed, sunk, data>>
    /\ UNCHANGED <<attempt, driver, price, date>>
    /\ UNCHANGED <<upstream, calls, agent, hit, configs>>
    /\ UNCHANGED twice

\* for request in driver.requests: ... break; then driver.quit(); an
\* exception of the scan goes to the except clause
FetcherScanRequests ==
    /\ impl = "fetcher" /\ pc = "f_scan"
    /\ \E o \in FetcherOutcomes :
         /\ o[1] = Locals(price, date, "none")
         /\ price' = o[2].price
         /\ date' = o[2].date
         /\ hit' = IF o[3] = NoHit THEN hit ELSE o[3]
         /\ IF o[2].exc = "none"
            THEN /\ FetcherQuit
                 /\ pc' = "f_issa"
                 /\ UNCHANGED warn
            ELSE /\ FetcherExcept
                 /\ warn' = o[2].exc
    /\ UNCHANGED <<impl, files, dist0, dist, idx, processed, failed, sunk, data>>
    /\ UNCHANGED <<attempt, driver, wait, url>>
    /\ UNCHANGED <<upstream, calls, agent, configs>>
    /\ UNCHANGED twice

(***************************************************************************)
(* stonks/utils.py: load_symbol_configs                                    *)
(***************************************************************************)
\* SymbolConfig.from_dict(symbol_data) for the file f at position k
SymbolConfig(k, f) ==
    [id |-> k, type |-> f.type, source |-> f.source, symbol |-> k,
     currency |-> f.currency]

\* LoaderExcept without the try block: the exception leaves the function
LoaderExceptRaise ==
    /\ failed' = Append(failed, idx)
    /\ pc' = "raised"
    /\ UNCHANGED idx

\* except Exception as e: logging.error(...); the loop goes on
LoaderExcept ==
    /\ failed' = Append(failed, idx)
    /\ idx' = idx + 1
    /\ pc' = "l_loop"

\* for symbol_file in symbol_files: json.load, SymbolConfig.from_dict (which
\* raises KeyError on a missing key), append; after the loop return the list
LoadSymbolConfigs ==
    /\ impl = "loader" /\ pc = "l_loop"
    /\ IF idx > Len(files)
       THEN /\ pc' = "returned"
            /\ UNCHANGED <<idx, processed, failed, configs>>
       ELSE /\ processed' = Append(processed, idx)
            /\ IF files[idx].parses
               THEN /\ configs' = Append(configs, SymbolConfig(idx, files[idx]))
                    /\ idx' = idx + 1
                    /\ pc' = "l_loop"
                    /\ UNCHANGED failed
               ELSE /\ LoaderExcept
                    /\ UNCHANGED configs
    /\ UNCHANGED <<impl, files, dist0, dist, sunk, data>>
    /\ UNCHANGED fetch
    /\ UNCHANGED <<upstream, calls, agent, hit>>
    /\ UNCHANGED twice

\* main is started again once run has returned: the second run starts from
\* the outputs the first has left
RunAgain ==
    /\ impl = "app" /\ pc = "done" /\ pass = 1
    /\ pass' = 2
    /\ first' = [dist |-> dist, sunk |-> sunk, failed |-> failed]
    /\ dist0' = dist
    /\ idx' = 1
    /\ pc' = "run"
    /\ processed' = <<>>
    /\ failed' = <<>>
    /\ sunk' = <<>>
    /\ UNCHANGED <<impl, files, dist, data>>
    /\ UNCHANGED fetch
    /\ UNCHANGED <<upstream, calls, agent, hit, configs, script>>

AppNext ==
    \/ Run
    \/ AppLoad
    \/ AppSelectProvider
    \/ AppSave
    \/ JustETFGetPriceData
    \/ YahooGetPriceData
    \/ TASENextAttempt
    \/ TASELaunch
    \/ TASENavigate
    \/ TASEScanRequests

MainNext ==
    \/ MainLoop
    \/ MainOpen
    \/ MainUserAgent
    \/ MainProcess
    \/ MainJustETF
    \/ MainYahoo
    \/ MainIssaLoop
    \/ MainLaunch
    \/ MainNavigate
    \/ MainScanRequests
    \/ MainWrite

FetcherNext ==
    \/ GetDataFetcher
    \/ FetcherJustETF
    \/ FetcherYahoo
    \/ FetcherIssaLoop
    \/ FetcherLaunch
    \/ FetcherNavigate
    \/ FetcherScanRequests

Next == AppNext \/ MainNext \/ FetcherNext \/ LoadSymbolConfigs

Spec == Init /\ [][Next]_vars

NextTwice == AppNext \/ RunAgain

\* two runs of StonksApp, one after the other, against an environment that
\* answers the same every time
SpecTwice == InitTwice /\ [][NextTwice]_vars

\* every scan starts from locals its outcome table covers
ScanStartsCovered ==
    /\ pc = "m_scan" => Locals(price, date, "none") \in MainStarts
    /\ pc = "f_scan" => Locals(price, date, "none") \in FetcherStarts

(***************************************************************************)
(* Properties                                                              *)
(***************************************************************************)
\* price > 0
Positive(p) == ~p.isNone /\ (p.whole > 0 \/ (p.whole = 0 /\ p.cents > 0))

\* how often symbol id k is in the list of failures
Failures(k) == Cardinality({ i \in 1..Len(failed) : failed[i] = k })

\* the symbol ids whose record was handed to the sink
Sunk == { sunk[i].symbol : i \in 1..Len(sunk) }

\* the outputs of symbol id k are what they were when the run started
Untouched(k) == dist[k] = dist0[k]

\* the outputs of symbol id k hold the record pd in full
Saved(k, pd) ==
    dist[k] = Written(dist0[k], 4, Str(pd.price), pd.currency, FormattedDate(pd),
                      [TrackInfo(k, files[k]) EXCEPT
                         !.price = pd.price, !.price_date = FormattedDate(pd)])

\* C1: StonksApp.run calls process_symbol once for every symbol file, in the
\* order of the list, and never raises: a failure of file i is followed by the
\* processing of every later file, and at the return of run every file is
\* either a logged failure or has its record saved in full.
C1_Isolation ==
    impl = "app" =>
      /\ pc # "aborted"
      /\ processed = [k \in 1..Len(processed) |-> k]
      /\ Len(processed) \in {idx - 1, idx}
      /\ pc # "done" => ENABLED AppNext
      /\ pc = "done" =>
           /\ Len(processed) = Len(files)
           /\ \A k \in 1..Len(files) :
                \/ Failures(k) = 1
                \/ /\ Failures(k) = 0
                   /\ \E i \in 1..Len(sunk) : sunk[i].symbol = k /\ Saved(k, sunk[i])

\* run has returned; the first file failed and the record of the second is saved
C1_Witness ==
    /\ impl = "app" /\ pc = "done"
    /\ Len(files) >= 2
    /\ failed = <<1>>
    /\ \E i \in 1..Len(sunk) : sunk[i].symbol = 2 /\ Saved(2, sunk[i])

\* C2: every record StonksApp hands to the sink has a price greater than zero.
C2_SunkPositive ==
    impl = "app" => \A i \in 1..Len(sunk) : Positive(sunk[i].price)

\* C3: in TASEProvider at most one browser session is open at any time, each
\* session launched is quit exactly once whether the attempt returns a record,
\* returns None or raises, and none is open outside an attempt.
C3_SessionTeardown ==
    impl = "app" =>
      /\ Cardinality(open) <= 1
      /\ ~dblQuit
      /\ pc \in {"tase_get", "tase_scan"} => open = {attempt} /\ driver = attempt
      /\ pc \notin {"tase_get", "tase_scan"} => open = {}

\* the second attempt is about to start after the first raised while the
\* session was navigating, and no session is open
C3_Witness ==
    /\ impl = "app" /\ pc = "TASEProvider"
    /\ attempt = 1
    /\ warn = "navigate"
    /\ open = {} /\ ~dblQuit

\* C4: when TASEProvider.get_price_data fails after an attempt in which no
\* request matched, it has made exactly SELENIUM_MAX_RETRIES attempts.
C4_ExactlyMaxRetries ==
    (impl = "app" /\ pc = "run" /\ attempt > 0 /\ warn = "none")
      => attempt = SELENIUM_MAX_RETRIES

\* C5: the wait before the scan of attempt k is the base wait times k (30 in
\* TASEProvider, 10 in IssaDataFetcher, 30 in main.py), so longer than the
\* wait of attempt k - 1.
C5_LinearWait ==
    /\ pc = "tase_scan" =>
         /\ attempt >= 1
         /\ wait = SELENIUM_WAIT_TIME * attempt
         /\ wait > SELENIUM_WAIT_TIME * (attempt - 1)
    /\ pc = "m_scan" =>
         /\ attempt >= 1
         /\ wait = 30 * attempt
         /\ wait > 30 * (attempt - 1)
    /\ pc = "f_scan" =>
         /\ attempt >= 1
         /\ wait = 10 * attempt
         /\ wait > 10 * (attempt - 1)

\* the third attempt of TASEProvider has waited and is about to scan
C5_Witness ==
    /\ impl = "app" /\ pc = "tase_scan"
    /\ attempt = 3
    /\ wait = 3 * SELENIUM_WAIT_TIME

\* C6: in each of the three implementations, when a matched response has a
\* status in [400, 600) and attempts remain, the attempt has failed and the
\* loop goes on to another attempt; the fetch has not failed.
C6_StatusRetried ==
    warn = "status" =>
      \/ impl = "app" /\ (attempt < TASELastAttempt => pc = "TASEProvider")
      \/ impl = "main" /\ (attempt < MainRangeStop - 1 => pc = "m_issa")
      \/ impl = "fetcher" /\ (attempt < FetcherRangeStop - 1 => pc = "f_issa")

\* C7: a symbol file whose source is not a known one never reaches a provider
\* or the sink, its outputs stay what they were, it is recorded as a failure
\* exactly once, and run goes on.
C7_UnknownSource ==
    impl = "app" =>
      /\ pc # "aborted"
      /\ pc \in {"JustETFProvider", "YahooFinanceProvider", "TASEProvider",
                 "tase_launch", "tase_get", "tase_scan", "save"}
           => files[idx].source \in KnownSources
      /\ \A k \in 1..Len(files) :
           (files[k].parses /\ files[k].source \notin KnownSources) =>
             /\ Untouched(k)
             /\ k \notin Sunk
             /\ Failures(k) = (IF k < idx THEN 1 ELSE 0)

\* the first file has an unknown source, it is the one failure, and the
\* second file is being loaded
C7_Witness ==
    /\ impl = "app" /\ pc = "load"
    /\ idx = 2
    /\ files[1].parses /\ files[1].source \notin KnownSources
    /\ failed = <<1>>
    /\ Untouched(1)

\* C8: main.py never propagates the error of one symbol file out of main: it
\* goes on with the remaining files.
C8_MainContinues ==
    impl = "main" => pc # "aborted"

\* C9: in fetch_price_from_issa of main.py no session is open when an attempt
\* starts nor when the function has returned or raised.
C9_MainNoLeak ==
    (impl = "main" /\ pc \in {"m_launch", "m_write", "m_loop", "done", "aborted"})
      => open = {}

\* a step changes the outputs of no symbol but the one being processed
OthersUnchanged ==
    impl \in {"app", "main"} =>
      \A k \in 1..Len(files) : k # idx => dist'[k] = dist[k]

\* C10: the outputs of a symbol for which no record was obtained are what they
\* were when the run started, and the processing of a symbol changes the
\* outputs of no other symbol (StonksApp and main.py).
C10_LastKnownGood ==
    /\ [](impl \in {"app", "main"} =>
            \A k \in 1..Len(files) : k \notin Sunk => Untouched(k))
    /\ [][OthersUnchanged]_vars

\* the record of the first symbol is saved over its earlier outputs, the
\* second symbol failed in its provider, and its earlier outputs are intact
C10_Witness ==
    /\ impl = "app" /\ pc = "done"
    /\ Len(files) >= 2
    /\ 1 \in Sunk /\ dist[1] # dist0[1]
    /\ failed = <<2>> /\ 2 \notin Sunk
    /\ files[2].parses /\ files[2].source \in KnownSources
    /\ dist[2] = OldOutputs(2)

\* the symbol whose fetch the entry point has ended and not yet left behind,
\* 0 when there is none
Over ==
    IF impl \in {"app", "main", "fetcher"}
       /\ pc \in {"save", "m_write", "aborted", "returned", "raised"}
    THEN idx
    ELSE IF impl \in {"app", "main"} /\ pc \in {"run", "m_loop"} /\ idx > 1
    THEN idx - 1
    ELSE 0

\* a justetf symbol's fetch is over
JustETFOver == Over # 0 /\ files[Over].parses /\ files[Over].source = "justetf"

\* the payload of request h has its price and date fields, the date in the
\* payload's native layout
WellFormed(h) ==
    \/ /\ h.url = SecurityUrl
       /\ Has(h.json, "LastRate") /\ Has(h.json, "TradeDate")
       /\ h.json["TradeDate"].fmt = "%d/%m/%Y"
    \/ /\ h.url = MutualUrl
       /\ Has(h.json, "purchasePrice") /\ Has(h.json, "ratesAsOf")
       /\ h.json["ratesAsOf"].fmt = "%Y-%m-%d"

\* p is the hundredth of the price field of h and t is its date as YYYY-MM-DD
Normalised(h, p, t) ==
    LET r == IF h.url = SecurityUrl THEN h.json["LastRate"] ELSE h.json["purchasePrice"]
        day == IF h.url = SecurityUrl THEN h.json["TradeDate"] ELSE h.json["ratesAsOf"]
    IN /\ ~p.isNone
       /\ p.cents \in 0..99
       /\ 100 * p.whole + p.cents = r
       /\ t = [fmt |-> "%Y-%m-%d", y |-> day.y, m |-> day.m, d |-> day.d]

\* C11: a record IssaDataFetcher.fetch_data returns has a price and a date
\* in the layout YYYY-MM-DD.
C11_FetcherComplete ==
    (impl = "fetcher" /\ pc = "returned" /\ files[idx].source = "issa") =>
      /\ Truthy(data.price)
      /\ data.date.fmt = "%Y-%m-%d"

\* C12: for a justetf or yahoo_finance symbol at most one price request is
\* sent, and once it was sent the provider is not entered again for the symbol.
C12_SingleRequest ==
    /\ calls <= 1
    /\ calls = 1 =>
         pc \notin {"JustETFProvider", "YahooFinanceProvider", "m_justetf",
                    "m_yahoo", "f_justetf", "f_yahoo"}
    /\ (impl = "app" /\ Over # 0 /\ calls = 1 /\ upstream.quote.raw.isNone)
         => Failures(Over) = 1 /\ Over \notin Sunk

\* StonksApp has failed the first symbol, a yahoo_finance one whose history
\* was empty, after one request, and goes on with the second
C12_Witness ==
    /\ impl = "app" /\ pc = "run" /\ idx = 2
    /\ files[1].source = "yahoo_finance"
    /\ upstream.quote.raw.isNone
    /\ calls = 1
    /\ failed = <<1>>

\* C13: after an attempt that read a response lacking the price or date
\* field, no further attempt is made for the symbol.
C13_MalformedNotRetried ==
    warn \in {"missing", "KeyError"} =>
      /\ ~(pc = "TASEProvider" /\ attempt < TASELastAttempt)
      /\ ~(pc = "f_issa" /\ attempt < FetcherRangeStop - 1 /\ ~Truthy(price))
      /\ ~(pc = "m_issa" /\ attempt < MainRangeStop - 1 /\ ~Truthy(price))

\* C14: every intercepted-browser fetch navigates to the security page for
\* type 'etf' and to the mutual-fund page for any other type.
C14_UrlByType ==
    pc \in {"tase_scan", "m_scan", "f_scan"} =>
      url = IF files[idx].type = "etf"
            THEN "https://market.tase.co.il/he/market_data/security"
            ELSE "https://maya.tase.co.il/he/funds/mutual-funds"

\* C15: the record TASEProvider hands on, and the record IssaDataFetcher
\* returns when the payload it read is well-formed, has the price field of the
\* matched payload divided by 100 and the payload's date as YYYY-MM-DD.
C15_Normalisation ==
    /\ (impl = "app" /\ pc = "save" /\ files[idx].source = "issa") =>
         /\ WellFormed(hit)
         /\ Normalised(hit, data.price, FormattedDate(data))
    /\ (impl = "fetcher" /\ pc = "returned" /\ files[idx].source = "issa"
        /\ WellFormed(hit)) =>
         Normalised(hit, data.price, data.date)

\* IssaDataFetcher has returned 50.34 and 2024-03-15 for a security-data
\* payload with LastRate 5034 and TradeDate 15/03/2024
C15_Witness ==
    /\ impl = "fetcher" /\ pc = "returned"
    /\ hit.url = SecurityUrl
    /\ hit.json = [LastRate |-> 5034, TradeDate |-> DMY(15, 3, 2024)]
    /\ data.price = Float(50, 34)
    /\ data.date = YMD(2024, 3, 15)

\* C16: a justetf fetch ends without a record only when the quote endpoint
\* answered with an error status or without one of the two fields (or, in
\* main.py, the user-agent list could not be read); otherwise its record has
\* the price and the date of the answer and the currency of the symbol.
C16_DirectQuote ==
    JustETFOver =>
      IF data = NoData
      THEN \/ /\ calls = 1
              /\ \/ RaiseForStatus(upstream.quote)
                 \/ upstream.quote.raw.isNone
                 \/ upstream.quote.day = NoneDate
           \/ impl = "main" /\ upstream.agents = "error"
      ELSE /\ data.price = upstream.quote.raw
           /\ data.currency = files[Over].currency
           /\ FormattedDate(data) = upstream.quote.day

\* C17: a justetf fetch for which no user agent was resolved still sends its
\* quote request, with the default User-Agent.
C17_DefaultAgent ==
    (JustETFOver /\ upstream.agents # "match") =>
      /\ calls = 1
      /\ agent = DefaultAgent

\* a justetf fetch that is over has failed: no record, nothing written for
\* the symbol, and the entry point has taken its failure path
DirectQuoteFailed ==
    /\ data = NoData
    /\ Over \notin Sunk
    /\ Untouched(Over)
    /\ impl = "app" => Failures(Over) = 1
    /\ impl = "main" => pc = "aborted"
    /\ impl = "fetcher" => pc = "raised"

C19_LoaderSkips ==
    impl = "loader" =>
      /\ pc # "raised"
      /\ pc = "returned" =>
           /\ \A k \in 1..Len(files) :
                /\ Cardinality({ i \in 1..Len(configs) : configs[i].id = k })
                     = (IF files[k].parses THEN 1 ELSE 0)
                /\ Failures(k) = (IF files[k].parses THEN 0 ELSE 1)
           /\ \A i \in 1..Len(configs) :
                /\ configs[i] = SymbolConfig(configs[i].id, files[configs[i].id])
                /\ \A j \in 1..Len(configs) : i < j => configs[i].id < configs[j].id

\* load_symbol_configs has returned the config of the second file alone, the
\* first file being unparseable
C19_Witness ==
    /\ impl = "loader" /\ pc = "returned"
    /\ Len(files) >= 2
    /\ ~files[1].parses /\ files[2].parses
    /\ Len(configs) = 1 /\ configs[1].id = 2
    /\ failed = <<1>>

\* C20: when StonksApp.run has finished, what it reports holds exactly the
\* symbols whose processing failed, each once.
C20_FailedReported ==
    (impl = "app" /\ pc = "done") =>
      \A k \in 1..Len(files) :
        Cardinality({ i \in 1..Len(RunReport) : RunReport[i] = k }) = Failures(k)

\* C21: StonksApp.run ends with a failure signal exactly when no symbol is
\* configured.
C21_FailsIffEmpty ==
    (impl = "app" /\ RunSignal # "running") =>
      (RunSignal = "raised" <=> Len(files) = 0)

\* the control locations of TASEProvider.get_price_data
TASEPcs == {"TASEProvider", "tase_launch", "tase_get", "tase_scan"}

\* the steps get_price_data can still take at most: 4 per attempt left, plus
\* those left in the current attempt
TASERank ==
    4 * (TASELastAttempt - attempt)
    + (IF pc = "tase_launch" THEN 3 ELSE IF pc = "tase_get" THEN 2
       ELSE IF pc = "tase_scan" THEN 1 ELSE 0)

\* a step of TASEProvider.get_price_data stays in the call with fewer steps
\* left, or ends it as Done (a record for the symbol, no failure logged) or as
\* Exhausted (no record, the failure logged, and the last attempt reached);
\* the loop head starts a further attempt while one is left
TASEStep ==
    (impl = "app" /\ pc \in TASEPcs) =>
      /\ pc' \in TASEPcs \cup {"save", "run"}
      /\ pc' \in TASEPcs => TASERank' < TASERank /\ failed' = failed /\ data' = NoData
      /\ pc' = "save" => data'.symbol = idx /\ failed' = failed
      /\ pc' = "run" =>
           /\ attempt = TASELastAttempt
           /\ failed' = Append(failed, idx)
           /\ data' = NoData
      /\ (pc = "TASEProvider" /\ attempt < TASELastAttempt) =>
           pc' = "tase_launch" /\ attempt' = attempt + 1

\* C23: TASEProvider.get_price_data always has a next step until it ends,
\* ends after a bounded number of steps as Done or as Exhausted, and raises
\* only in or after its last attempt.
C23_DoneOrExhausted ==
    /\ []((impl = "app" /\ pc \in TASEPcs) => (TASERank >= 0 /\ ENABLED AppNext))
    /\ [][TASEStep]_vars

\* get_price_data has raised on a navigation error of its last attempt, after
\* eight earlier attempts that were each followed by a further one
C23_Witness ==
    /\ impl = "app" /\ pc = "run" /\ idx = 2
    /\ files[1].source = "issa"
    /\ attempt = TASELastAttempt
    /\ warn = "navigate"
    /\ failed = <<1>>

\* once a fetch call holds a non-zero price, no step launches a browser
\* session, waits or starts an attempt
MatchedStep ==
    (\/ impl \in {"main", "fetcher"} /\ Positive(price)
     \/ impl = "app" /\ Positive(data.price)) =>
      /\ open' \subseteq open
      /\ wait' \in {wait, 0}
      /\ attempt' \in {attempt, 0}

C25_OnlyFinalError ==
    (impl = "fetcher" /\ pc = "raised" /\ files[idx].source = "issa") =>
      /\ attempt = FetcherRangeStop - 1
      /\ ~Truthy(price)

\* C26: the outputs of a symbol are all four as they were when the run
\* started, or all four changed.
C26_AllOrNothing ==
    impl \in {"app", "main"} =>
      \A k \in 1..Len(files) :
        LET changed == { f \in {"price", "currency", "date", "info"} :
                           dist[k][f] # dist0[k][f] }
        IN changed = {} \/ changed = {"price", "currency", "date", "info"}

\* C27: after a successful Storage.save_price_data the currency output of the
\* symbol equals the currency of its info.json.
C27_CurrencyAgrees ==
    impl = "app" =>
      \A k \in 1..Len(files) :
        (k < idx /\ k \in Sunk /\ Failures(k) = 0) =>
          dist[k].currency.content = dist[k].info.content.currency

\* C28: the price and date fetch_price_from_issa and IssaDataFetcher return
\* are those of the first captured request with a response and a known
\* prefix, when its payload is well-formed with a non-zero price.
C28_FirstMatch ==
    (/\ \/ impl = "main" /\ pc = "m_write"
        \/ impl = "fetcher" /\ pc = "returned"
     /\ files[idx].source = "issa"
     /\ WellFormed(hit)
     /\ (IF hit.url = SecurityUrl THEN hit.json["LastRate"]
         ELSE hit.json["purchasePrice"]) > 0) =>
      Normalised(hit, data.price, data.date)

\* C22: when the second of two runs of StonksApp over the same files and the
\* same answers of the environment has returned, it has handed the same
\* records to the sink and logged the same failures as the first, and the
\* persisted outputs are what the first run left.
C22_Idempotent ==
    (pass = 2 /\ pc = "done") =>
      /\ sunk = first.sunk
      /\ failed = first.failed
      /\ dist = first.dist

\* both runs have ended; the first symbol's record was saved in full by each,
\* over the outputs of an earlier run
C22_Witness ==
    /\ pass = 2 /\ pc = "done"
    /\ Len(files) >= 1
    /\ first.failed = <<>>
    /\ Len(first.sunk) = Len(files)
    /\ dist[1].price = File(TRUE, Str(sunk[1].price))
    /\ dist[1].info.exists
====
